---- MODULE Spec2Model ----
(***************************************************************************)
(* Model of password_app.py: the breach lookup (check_hibp_breach), the    *)
(* entropy estimate (calculate_entropy), the generator                     *)
(* (generate_strong_password) and the Streamlit script (main).             *)
(*                                                                         *)
(* A Python str is a sequence of Unicode code points (integers); bytes are *)
(* sequences of 0..255.                                                    *)
(***************************************************************************)
EXTENDS FiniteSets, Integers, Sequences, TLC

\* --------------------------------------------------------------------------
\* Strings
\* --------------------------------------------------------------------------

None == "None"

Range(s) == {s[i] : i \in 1..Len(s)}

\* string.ascii_lowercase, string.ascii_uppercase, string.digits
ascii_lowercase == [i \in 1..26 |-> 96 + i]

ascii_uppercase == [i \in 1..26 |-> 64 + i]

ascii_letters == ascii_lowercase \o ascii_uppercase

digits == [i \in 1..10 |-> 47 + i]

\* the literal "!@#$%^&*" of lines 36, 41 and 47
SYMBOLS == <<33, 64, 35, 36, 37, 94, 38, 42>>

\* str.upper() on the ASCII range (the hex digest has no other characters)
UpperChar(c) == IF c >= 97 /\ c <= 122 THEN c - 32 ELSE c

upper(s) == [i \in 1..Len(s) |-> UpperChar(s[i])]

\* str.encode(): UTF-8 of one code point of the Basic Multilingual Plane
EncodeChar(c) ==
    IF c < 128 THEN <<c>>
    ELSE IF c < 2048 THEN <<192 + (c \div 64), 128 + (c % 64)>>
    ELSE <<224 + (c \div 4096), 128 + ((c \div 64) % 64), 128 + (c % 64)>>

RECURSIVE encode(_)
encode(s) == IF s = <<>> THEN <<>> ELSE EncodeChar(Head(s)) \o encode(Tail(s))

\* --------------------------------------------------------------------------
\* hashlib.sha1: FIPS 180-4 SHA-1.  A 32-bit word is the pair <<hi, lo>> of
\* its 16-bit halves.
\* --------------------------------------------------------------------------

H16 == 65536

RECURSIVE Pow2(_)
Pow2(n) == IF n = 0 THEN 1 ELSE 2 * Pow2(n - 1)

\* bitwise operations on 4-bit values, tabulated bit by bit
RECURSIVE Bitwise(_, _, _, _)
Bitwise(op, a, b, n) ==
    IF n = 0 THEN 0
    ELSE LET p == a % 2
             q == b % 2
             bit == CASE op = "xor" -> (p + q) % 2
                      [] op = "and" -> p * q
                      [] op = "or"  -> IF p + q > 0 THEN 1 ELSE 0
         IN  bit + 2 * Bitwise(op, a \div 2, b \div 2, n - 1)

XorTable == [a \in 0..15 |-> [b \in 0..15 |-> Bitwise("xor", a, b, 4)]]

AndTable == [a \in 0..15 |-> [b \in 0..15 |-> Bitwise("and", a, b, 4)]]

OrTable == [a \in 0..15 |-> [b \in 0..15 |-> Bitwise("or", a, b, 4)]]

\* a 16-bit operation, nibble by nibble
Op16(tbl, a, b) ==
    tbl[a % 16][b % 16]
    + 16 * tbl[(a \div 16) % 16][(b \div 16) % 16]
    + 256 * tbl[(a \div 256) % 16][(b \div 256) % 16]
    + 4096 * tbl[a \div 4096][b \div 4096]

WXor(u, v) == <<Op16(XorTable, u[1], v[1]), Op16(XorTable, u[2], v[2])>>

WAnd(u, v) == <<Op16(AndTable, u[1], v[1]), Op16(AndTable, u[2], v[2])>>

WOr(u, v) == <<Op16(OrTable, u[1], v[1]), Op16(OrTable, u[2], v[2])>>

WNot(u) == <<H16 - 1 - u[1], H16 - 1 - u[2]>>

WAdd(u, v) ==
    LET lo == u[2] + v[2]
        hi == u[1] + v[1] + (lo \div H16)
    IN  <<hi % H16, lo % H16>>

\* rotate left by n, 0 < n < 16
RotlSmall(u, n) ==
    <<((u[1] * Pow2(n)) % H16) + (u[2] \div Pow2(16 - n)),
      ((u[2] * Pow2(n)) % H16) + (u[1] \div Pow2(16 - n))>>

Rotl(u, n) ==
    IF n = 0 THEN u
    ELSE IF n < 16 THEN RotlSmall(u, n)
    ELSE IF n = 16 THEN <<u[2], u[1]>>
    ELSE RotlSmall(<<u[2], u[1]>>, n - 16)

\* message padding: 0x80, zeros to 56 mod 64, then the bit length in 64 bits
ZeroBytes(n) == [i \in 1..n |-> 0]

Pad(msg) ==
    LET l == Len(msg)
        z == (119 - (l % 64)) % 64
        bits == 8 * l
    IN  msg \o <<128>> \o ZeroBytes(z) \o ZeroBytes(4)
            \o <<(bits \div 16777216) % 256, (bits \div 65536) % 256,
                 (bits \div 256) % 256, bits % 256>>

WordAt(bytes, k) ==
    <<bytes[k] * 256 + bytes[k + 1], bytes[k + 2] * 256 + bytes[k + 3]>>

RECURSIVE Schedule(_)
Schedule(w) ==
    IF Len(w) = 80 THEN w
    ELSE LET t == Len(w) + 1
         IN  Schedule(Append(w,
                 Rotl(WXor(WXor(w[t - 3], w[t - 8]), WXor(w[t - 14], w[t - 16])), 1)))

F(t, b, c, d) ==
    IF t < 20 THEN WOr(WAnd(b, c), WAnd(WNot(b), d))
    ELSE IF t < 40 THEN WXor(WXor(b, c), d)
    ELSE IF t < 60 THEN WOr(WOr(WAnd(b, c), WAnd(b, d)), WAnd(c, d))
    ELSE WXor(WXor(b, c), d)

K(t) ==
    IF t < 20 THEN <<23170, 31129>>
    ELSE IF t < 40 THEN <<28377, 60321>>
    ELSE IF t < 60 THEN <<36635, 48348>>
    ELSE <<51810, 49622>>

\* the 80 rounds on the working state st = <<t, a, b, c, d, e>>, t the round
RECURSIVE Rounds(_, _)
Rounds(st, w) ==
    IF st[1] = 80 THEN st
    ELSE LET t == st[1]
             tmp == WAdd(WAdd(WAdd(WAdd(Rotl(st[2], 5), F(t, st[3], st[4], st[5])),
                                   st[6]), K(t)), w[t + 1])
         IN  Rounds(<<t + 1, tmp, st[2], Rotl(st[3], 30), st[4], st[5]>>, w)

H0 == <<<<26437, 8961>>, <<61389, 43913>>, <<39098, 56574>>,
        <<4146, 21622>>, <<50130, 57840>>>>

RECURSIVE Blocks(_, _)
Blocks(bytes, h) ==
    IF bytes = <<>> THEN h
    ELSE LET w == Schedule([i \in 1..16 |-> WordAt(bytes, 4 * i - 3)])
             s == Rounds(<<0>> \o h, w)
         IN  Blocks(SubSeq(bytes, 65, Len(bytes)),
                    [i \in 1..5 |-> WAdd(h[i], s[i + 1])])

\* one lowercase hexadecimal digit
HexChar(n) == IF n < 10 THEN 48 + n ELSE 87 + n

Hex16(x) ==
    <<HexChar(x \div 4096), HexChar((x \div 256) % 16),
      HexChar((x \div 16) % 16), HexChar(x % 16)>>

\* the five 32-bit words of the state as 40 lowercase hexadecimal characters
HexWords(h) ==
    Hex16(h[1][1]) \o Hex16(h[1][2]) \o Hex16(h[2][1]) \o Hex16(h[2][2])
    \o Hex16(h[3][1]) \o Hex16(h[3][2]) \o Hex16(h[4][1]) \o Hex16(h[4][2])
    \o Hex16(h[5][1]) \o Hex16(h[5][2])

\* hashlib.sha1(data).hexdigest(): 40 lowercase hexadecimal characters
sha1_hexdigest(bytes) == HexWords(Blocks(Pad(bytes), H0))

\* --------------------------------------------------------------------------
\* str.splitlines() and str.split(sep)
\* --------------------------------------------------------------------------

\* the line boundaries of str.splitlines(): \n \r \v \f \x1c \x1d \x1e \x85
\*     (and \r\n as one boundary)
LineBreaks == {10, 11, 12, 13, 28, 29, 30, 133, 8232, 8233}

Min(S) == CHOOSE m \in S : \A n \in S : m <= n

\* the pieces of s that start at the positions of starts and run up to the
\* next position of stops (or the end of s), in order
Pieces(s, starts, stops) ==
    [k \in 1..Cardinality(starts) |->
        LET p == CHOOSE q \in starts : Cardinality({r \in starts : r <= q}) = k
        IN  SubSeq(s, p, Min({i \in stops : i >= p} \cup {Len(s) + 1}) - 1)]

\* s.splitlines(): no empty last line after a final boundary
splitlines(s) ==
    LET breaks == {i \in 1..Len(s) :
                      /\ s[i] \in LineBreaks
                      /\ ~(s[i] = 10 /\ i > 1 /\ s[i - 1] = 13)}
        After(i) == IF s[i] = 13 /\ i < Len(s) /\ s[i + 1] = 10 THEN i + 2 ELSE i + 1
        starts == ({1} \cup {After(i) : i \in breaks}) \ {Len(s) + 1}
    IN  Pieces(s, starts, breaks)

\* s.split(sep) for a one-character separator: always at least one field
split(s, sep) ==
    LET seps == {i \in 1..Len(s) : s[i] = sep}
    IN  Pieces(s, {1} \cup {i + 1 : i \in seps}, seps)

COLON == 58

\* --------------------------------------------------------------------------
\* check_hibp_breach (lines 20-28)
\* --------------------------------------------------------------------------

\* "https://api.pwnedpasswords.com/range/"
RANGE_URL ==
    <<104, 116, 116, 112, 115, 58, 47, 47, 97, 112, 105, 46, 112, 119, 110,
      101, 100, 112, 97, 115, 115, 119, 111, 114, 100, 115, 46, 99, 111, 109,
      47, 114, 97, 110, 103, 101, 47>>

\* line 23 with sha1_hash[:6]
PrefixOfSix(sha1_hash) == SubSeq(sha1_hash, 1, 6)

\* line 23: sha1_hash[:5], sha1_hash[5:]
PrefixOf(sha1_hash) == SubSeq(sha1_hash, 1, 5)

SuffixOf(sha1_hash) == SubSeq(sha1_hash, 6, Len(sha1_hash))

\* lines 24-27: the one GET of the call
RangeRequest(prefix) ==
    [method |-> "GET", url |-> RANGE_URL \o prefix,
     headers |-> [UserAgent |-> "EnterpriseScanner"]]

\* line 28 with suffix.startswith(line.split(':')[0])
AnyLineStartsSuffix(text, suffix) ==
    LET lines == splitlines(text)
    IN  \E i \in 1..Len(lines) :
            LET f == split(lines[i], COLON)[1]
            IN  Len(f) <= Len(suffix) /\ f = SubSeq(suffix, 1, Len(f))

\* line 28: any(line.split(':')[0] == suffix for line in text.splitlines())
AnyLineMatches(text, suffix) ==
    LET lines == splitlines(text)
    IN  \E i \in 1..Len(lines) : split(lines[i], COLON)[1] = suffix

\* --------------------------------------------------------------------------
\* The character classes of the regular expressions (lines 33-36, 44-47)
\* --------------------------------------------------------------------------

\* [a-z]
MatchesLower(c) == c >= 97 /\ c <= 122

\* [A-Z]
MatchesUpper(c) == c >= 65 /\ c <= 90

\* \d on a str pattern: any Unicode decimal digit (category Nd).  The blocks
\* listed are those below U+0A00 and the fullwidth digits.
MatchesDigit(c) ==
    \/ c >= 48 /\ c <= 57
    \/ c >= 1632 /\ c <= 1641
    \/ c >= 1776 /\ c <= 1785
    \/ c >= 1984 /\ c <= 1993
    \/ c >= 2406 /\ c <= 2415
    \/ c >= 2534 /\ c <= 2543
    \/ c >= 65296 /\ c <= 65305

\* [!@#$%^&*]
MatchesSymbol(c) == \E i \in 1..Len(SYMBOLS) : c = SYMBOLS[i]

\* whether character c matches the one-character class
Matches(class, c) ==
    CASE class = "[a-z]" -> MatchesLower(c)
      [] class = "[A-Z]" -> MatchesUpper(c)
      [] class = "\\d" -> MatchesDigit(c)
      [] class = "[!@#$%^&*]" -> MatchesSymbol(c)

\* re.search(class, password) finds a match
Search(class, s) == \E i \in 1..Len(s) : Matches(class, s[i])

\* --------------------------------------------------------------------------
\* calculate_entropy (lines 30-37).  A float number of bits is kept in
\* millionths of a bit, rounded down.
\* --------------------------------------------------------------------------

MICRO == 1000000

\* math.log2 on the values charset can take; ValueError elsewhere (x <= 0)
LOG2_MICRO ==
    (10 :> 3321928) @@ (20 :> 4321928) @@ (26 :> 4700439) @@ (36 :> 5169925)
    @@ (46 :> 5523561) @@ (52 :> 5700439) @@ (62 :> 5954196) @@ (72 :> 6169925)

math_log2(v) == IF v \in DOMAIN LOG2_MICRO THEN LOG2_MICRO[v] ELSE "ValueError"

\* lines 32-36
Charset(password) ==
    (IF Search("[a-z]", password) THEN 26 ELSE 0)
    + (IF Search("[A-Z]", password) THEN 26 ELSE 0)
    + (IF Search("\\d", password) THEN 10 ELSE 0)
    + (IF Search("[!@#$%^&*]", password) THEN 10 ELSE 0)

\* line 37 without the factor len(password)
calculate_entropy_no_length(password) ==
    LET charset == Charset(password)
    IN  IF charset # 0 THEN math_log2(charset) ELSE 0

\* line 37
calculate_entropy(password) ==
    LET charset == Charset(password)
    IN  IF charset # 0 THEN Len(password) * math_log2(charset) ELSE 0

\* --------------------------------------------------------------------------
\* generate_strong_password (lines 39-48)
\* --------------------------------------------------------------------------

\* line 41
chars == ascii_letters \o digits \o SYMBOLS

\* range(length): the number of characters one candidate is joined from
RangeLen(length) == IF length < 0 THEN 0 ELSE length

\* lines 44-47 without the test of line 47
AllClassesNoSymbol(password) ==
    /\ Search("[A-Z]", password)
    /\ Search("[a-z]", password)
    /\ Search("\\d", password)

\* lines 44-47
AllClasses(password) ==
    /\ Search("[A-Z]", password)
    /\ Search("[a-z]", password)
    /\ Search("\\d", password)
    /\ Search("[!@#$%^&*]", password)

\* the default of the parameter length (line 39)
DEFAULT_LENGTH == 12

\* --------------------------------------------------------------------------
\* Bounds of the model
\* --------------------------------------------------------------------------

\* lengths passed to generate_strong_password: -1..MaxLength
MaxLength == 5

\* SystemRandom().choice draws among the first PerClass characters of each
\* of the four blocks of chars (lowercase, uppercase, digits, symbols)
PerClass == 1

\* records in the body of a range response
MaxLines == 2

\* passwords given to calculate_entropy: a unit of at most MaxEntropyLen
\* characters, repeated at most MaxRepeat times
MaxEntropyLen == 4

MaxRepeat == 2

\* accepted candidates the generator may draw in a Streamlit session
UiDraws == 2

BlockStarts ==
    {1, 1 + Len(ascii_lowercase), 1 + Len(ascii_letters),
     1 + Len(ascii_letters) + Len(digits)}

DrawIndices ==
    {i \in 1..Len(chars) : \E b \in BlockStarts : i >= b /\ i < b + PerClass}

\* --------------------------------------------------------------------------
\* Inputs of the model
\* --------------------------------------------------------------------------

EMPTY == <<>>

\* the indices of DrawIndices, in the order of chars
DrawSeq == SelectSeq([i \in 1..Len(chars) |-> i], LAMBDA i : i \in DrawIndices)

\* the candidates generate_strong_password joins in this session: one
\* character repeated, or the drawn characters in turn from some offset
UiCandidates(length) ==
    {[i \in 1..length |-> chars[d]] : d \in DrawIndices}
    \cup {[i \in 1..length |-> chars[DrawSeq[((i + k) % Len(DrawSeq)) + 1]]] :
             k \in 1..UiDraws}

\* what the user types: "", "Aa1!", "password", "Aa1!Aa1!Aa", " "
TypedPasswords ==
    {EMPTY, <<65, 97, 49, 33>>, <<112, 97, 115, 115, 119, 111, 114, 100>>,
     <<65, 97, 49, 33, 65, 97, 49, 33, 65, 97>>, <<32>>}

\* "password", "du", "adb": the digests of "du" and "adb" share the prefix FA114
HibpPasswords ==
    {<<112, 97, 115, 115, 119, 111, 114, 100>>, <<100, 117>>, <<97, 100, 98>>}

\* the digests of the passwords above, computed once
DIGESTS ==
    [p \in HibpPasswords \cup TypedPasswords
           \cup {c \in UiCandidates(DEFAULT_LENGTH) : AllClasses(c)} |->
        upper(sha1_hexdigest(encode(p)))]

\* line 22: hashlib.sha1(password.encode()).hexdigest().upper()
Sha1Hash(password) ==
    IF password \in DOMAIN DIGESTS THEN DIGESTS[password]
    ELSE upper(sha1_hexdigest(encode(password)))

\* --------------------------------------------------------------------------
\* State
\* --------------------------------------------------------------------------

VARIABLES
    \* one call of check_hibp_breach
    hibp_pc,            \* "idle", "requested" (inside requests.get), "returned", "raised"
    hibp_password,      \* the argument
    hibp_sha1_hash,     \* the local sha1_hash
    hibp_outbound,      \* the requests this call has sent
    hibp_response,      \* the local response: [status_code, text]
    hibp_records,       \* the records the server rendered into response.text
    hibp_result,        \* the value returned, or the exception raised
    \* one call of generate_strong_password
    gen_pc,             \* "idle", "loop", "returned"
    gen_length,         \* the argument
    gen_password,       \* the local password, while it is joined and tested
    gen_result,         \* the value returned
    \* one call of calculate_entropy
    ent_pc,             \* "idle", "called", "returned"
    ent_password,       \* the argument
    ent_result,         \* the value returned
    ent_log2_calls,     \* calls of math.log2 the call made
    \* the Streamlit session running main()
    session_state,      \* st.session_state
    rerun_pending,      \* st.rerun() was called and the rerun has not started
    generate_pressed,   \* Generate was pressed in an earlier script run
    run                 \* what the last script run did

hibp_vars ==
    <<hibp_pc, hibp_password, hibp_sha1_hash, hibp_outbound, hibp_response,
      hibp_records, hibp_result>>

gen_vars == <<gen_pc, gen_length, gen_password, gen_result>>

ent_vars == <<ent_pc, ent_password, ent_result, ent_log2_calls>>

ui_vars == <<session_state, rerun_pending, generate_pressed, run>>

vars == <<hibp_vars, gen_vars, ent_vars, ui_vars>>

\* --------------------------------------------------------------------------
\* Calls of check_hibp_breach
\* --------------------------------------------------------------------------

LowerChar(c) == IF c >= 65 /\ c <= 90 THEN c + 32 ELSE c

lower(s) == [i \in 1..Len(s) |-> LowerChar(s[i])]

\* "<h1>", a line of an error page
ERROR_LINE == <<60, 104, 49, 62>>

\* what a server may put in the SUFFIX position of a record, for a query made
\* with digest h: the suffix, a truncated suffix, the prefix, the suffix in
\* lowercase, text that is not hexadecimal, and the suffixes of the other
\* passwords
SuffixFields(h) ==
    {SuffixOf(h), SubSeq(h, 6, Len(h) - 1), PrefixOf(h), lower(SuffixOf(h)),
     ERROR_LINE}
    \cup {SuffixOf(Sha1Hash(q)) : q \in HibpPasswords}

\* a record is its ':'-separated fields: SUFFIX alone (no colon),
\* SUFFIX:COUNT, or SUFFIX:COUNT:COUNT
RecordsFor(h) ==
    {<<f>> : f \in SuffixFields(h)}
    \cup {<<f, <<51>>>> : f \in SuffixFields(h)}
    \cup {<<f, <<48>>, <<49>>>> : f \in SuffixFields(h)}

RECURSIVE Join(_, _)
Join(parts, sep) ==
    IF parts = <<>> THEN <<>>
    ELSE IF Len(parts) = 1 THEN parts[1]
    ELSE parts[1] \o sep \o Join(Tail(parts), sep)

\* the body: the records, each rendered with ':', joined with newline
RenderBody(records, newline) ==
    Join([i \in 1..Len(records) |-> Join(records[i], <<COLON>>)], newline)

BodiesFor(h) == UNION {[1..n -> RecordsFor(h)] : n \in 0..MaxLines}

Newlines == {<<13, 10>>, <<10>>}

StatusCodes == {200, 500}

\* lines 22-27, up to the moment requests.get has sent the request
HibpCall(password) ==
    /\ hibp_pc = "idle"
    /\ hibp_pc' = "requested"
    /\ hibp_password' = password
    /\ hibp_sha1_hash' = Sha1Hash(password)
    /\ hibp_outbound' = <<RangeRequest(PrefixOf(Sha1Hash(password)))>>
    /\ UNCHANGED <<hibp_response, hibp_records, hibp_result>>

\* requests.get raises (endpoint unreachable): the exception leaves the call
HibpUnreachable ==
    /\ hibp_pc = "requested"
    /\ hibp_pc' = "raised"
    /\ hibp_result' = "ConnectionError"
    /\ UNCHANGED <<hibp_password, hibp_sha1_hash, hibp_outbound, hibp_response,
                   hibp_records>>

\* requests.get returns a response, and line 28 computes the result
HibpResponse(status_code, records, newline) ==
    /\ hibp_pc = "requested"
    /\ hibp_pc' = "returned"
    /\ hibp_records' = records
    /\ hibp_response' = [status_code |-> status_code,
                         text |-> RenderBody(records, newline)]
    /\ hibp_result' = AnyLineMatches(hibp_response'.text, SuffixOf(hibp_sha1_hash))
    /\ UNCHANGED <<hibp_password, hibp_sha1_hash, hibp_outbound>>

\* the call is over; its locals are gone
HibpDone ==
    /\ hibp_pc \in {"returned", "raised"}
    /\ hibp_pc' = "idle"
    /\ hibp_password' = None
    /\ hibp_sha1_hash' = None
    /\ hibp_outbound' = <<>>
    /\ hibp_response' = None
    /\ hibp_records' = None
    /\ hibp_result' = None

HibpInit ==
    /\ hibp_pc = "idle"
    /\ hibp_password = None
    /\ hibp_sha1_hash = None
    /\ hibp_outbound = <<>>
    /\ hibp_response = None
    /\ hibp_records = None
    /\ hibp_result = None

\* --------------------------------------------------------------------------
\* Calls of generate_strong_password
\* --------------------------------------------------------------------------

Lengths == -1..MaxLength

\* the call enters the loop of line 42 with nothing joined yet
GenCall(length) ==
    /\ gen_pc = "idle"
    /\ gen_pc' = "loop"
    /\ gen_length' = length
    /\ gen_password' = <<>>
    /\ UNCHANGED gen_result

\* line 43: one random.SystemRandom().choice(chars) of the join
GenChoice(i) ==
    /\ gen_pc = "loop"
    /\ Len(gen_password) < RangeLen(gen_length)
    /\ gen_password' = Append(gen_password, chars[i])
    /\ UNCHANGED <<gen_pc, gen_length, gen_result>>

\* lines 44-48: the candidate is complete; return it or go round the loop
GenTest ==
    /\ gen_pc = "loop"
    /\ Len(gen_password) = RangeLen(gen_length)
    /\ IF AllClasses(gen_password)
       THEN /\ gen_pc' = "returned"
            /\ gen_result' = gen_password
            /\ UNCHANGED <<gen_length, gen_password>>
       ELSE /\ gen_password' = <<>>
            /\ UNCHANGED <<gen_pc, gen_length, gen_result>>

\* the call is over; its locals are gone
GenDone ==
    /\ gen_pc = "returned"
    /\ gen_pc' = "idle"
    /\ gen_length' = None
    /\ gen_password' = None
    /\ gen_result' = None

GenInit ==
    /\ gen_pc = "idle"
    /\ gen_length = None
    /\ gen_password = None
    /\ gen_result = None

\* --------------------------------------------------------------------------
\* Calls of calculate_entropy
\* --------------------------------------------------------------------------

\* a, Z, 7, !, *, space, e-acute, tilde, ARABIC-INDIC DIGIT THREE
EntropyChars == {97, 90, 55, 33, 42, 32, 233, 126, 1635}

EntropyUnits == UNION {[1..n -> EntropyChars] : n \in 0..MaxEntropyLen}

Repeat(unit, k) == [i \in 1..(k * Len(unit)) |-> unit[((i - 1) % Len(unit)) + 1]]

EntropyInputs == {Repeat(u, k) : u \in EntropyUnits, k \in 1..MaxRepeat}

\* the call, lines 32-37
EntropyCall ==
    /\ ent_pc = "called"
    /\ ent_pc' = "returned"
    /\ ent_result' = calculate_entropy(ent_password)
    /\ ent_log2_calls' = IF Charset(ent_password) # 0 THEN 1 ELSE 0
    /\ UNCHANGED ent_password

EntropyInit ==
    /\ ent_pc = "idle"
    /\ ent_password = None
    /\ ent_result = None
    /\ ent_log2_calls = 0

\* a call about to be made with any of the inputs
EntropyInitCall ==
    /\ ent_pc = "called"
    /\ ent_password \in EntropyInputs
    /\ ent_result = None
    /\ ent_log2_calls = 0

\* --------------------------------------------------------------------------
\* main(): one Streamlit session.  Each user event runs the script from the
\* top; st.rerun() ends the run and starts the script again.
\* --------------------------------------------------------------------------

\* key in st.session_state
Has(ss, key) == key \in DOMAIN ss

\* st.session_state[key] = value
Set(ss, key, value) == [k \in DOMAIN ss \cup {key} |-> IF k = key THEN value ELSE ss[k]]

\* before the first run of a session
NO_RUN ==
    [trigger |-> "none", value_arg |-> <<>>, pass_input |-> <<>>,
     generate_before |-> FALSE, flag_before |-> FALSE, analyze_clicked |-> FALSE,
     lookups |-> <<>>, entropy_calls |-> 0, exception |-> None, reports |-> <<>>]

\* line 165 with the 80 bits of the help text of line 156
RiskLevelEighty(entropy) == IF entropy < 80 * MICRO THEN "High Risk" ELSE "Low Risk"

\* line 165
RiskLevel(entropy) == IF entropy < 60 * MICRO THEN "High Risk" ELSE "Low Risk"

\* lines 160-163
BreachStatus(is_breached) == IF is_breached THEN "Compromised" ELSE "Secure"

\* lines 169-190: the boxes of the recommendations expander
Recommendations(is_breached, entropy) ==
    (IF is_breached THEN {"error"} ELSE {})
    \cup (IF entropy < 60 * MICRO THEN {"warning"} ELSE {"success"})

\* lines 147-190
Report(is_breached, entropy) ==
    [entropy |-> entropy,
     is_breached |-> is_breached,
     breach_status |-> BreachStatus(is_breached),
     risk_level |-> RiskLevel(entropy),
     recommendations |-> Recommendations(is_breached, entropy)]

\* lines 106-109 without the tests: both keys are set on every run
WithDefaultsAlways(ss) == Set(Set(ss, "current_pass", EMPTY), "analyze_flag", FALSE)

\* lines 106-109
WithDefaults(ss) ==
    LET s1 == IF Has(ss, "current_pass") THEN ss ELSE Set(ss, "current_pass", EMPTY)
    IN  IF Has(s1, "analyze_flag") THEN s1 ELSE Set(s1, "analyze_flag", FALSE)

\* lines 115-121: the value of the widget keyed "pass_input".  A new widget
\* takes the value argument.  When the argument differs from the one of the
\* previous run, the framework either builds a new widget (recreate) or
\* keeps the keyed one, depending on its version.
WidgetValue(ss, trigger, typed, recreate) ==
    IF trigger = "edit" THEN typed
    ELSE IF ~Has(ss, "pass_input") THEN ss.current_pass
    ELSE IF run.value_arg # ss.current_pass /\ recreate THEN ss.current_pass
    ELSE ss.pass_input

\* what is known of a run once the widgets are drawn
Started(ss0, ss1, trigger) ==
    [trigger |-> trigger,
     value_arg |-> ss0.current_pass,
     pass_input |-> ss1.pass_input,
     generate_before |-> generate_pressed,
     flag_before |-> ss0.analyze_flag,
     analyze_clicked |-> FALSE,
     lookups |-> <<>>,
     entropy_calls |-> 0,
     exception |-> None,
     reports |-> <<>>]

\* lines 140-190: what a run that got past the buttons records.  sha1_hash
\* is the digest line 22 computes for password.
Analysis(base, analyze_clicked, analyze_flag, password, sha1_hash, answer) ==
    IF ~(analyze_clicked \/ analyze_flag)                            \* line 140
    THEN base
    ELSE IF password = EMPTY                                         \* line 141
    THEN [base EXCEPT !.analyze_clicked = analyze_clicked]
    ELSE IF ~answer.reachable                                        \* line 144 raises
    THEN [base EXCEPT !.analyze_clicked = analyze_clicked,
                      !.lookups = <<RangeRequest(PrefixOf(sha1_hash))>>,
                      !.exception = "ConnectionError"]
    ELSE [base EXCEPT                                                \* lines 144-190
             !.analyze_clicked = analyze_clicked,
             !.lookups = <<RangeRequest(PrefixOf(sha1_hash))>>,
             !.entropy_calls = 1,
             !.reports = <<Report(
                 AnyLineMatches(
                     RenderBody(IF ~answer.listed
                                THEN <<>>
                                ELSE <<<<SuffixOf(sha1_hash), <<51>>>>>>,
                                <<13, 10>>),
                     SuffixOf(sha1_hash)),
                 calculate_entropy(password))>>]

\* lines 106-145 for the session state ss0 after the defaults and ss1 after
\* the widget
Body(ss0, ss1, trigger, candidate, answer) ==
    IF trigger = "generate"
    THEN \* lines 124-130
         /\ session_state' = Set(Set(ss1, "current_pass", candidate),
                                  "analyze_flag", TRUE)
         /\ rerun_pending' = TRUE
         /\ generate_pressed' = TRUE
         /\ run' = Started(ss0, ss1, trigger)
    ELSE /\ session_state' = ss1
         /\ rerun_pending' = FALSE
         /\ UNCHANGED generate_pressed
         /\ run' = Analysis(Started(ss0, ss1, trigger), trigger = "analyze",
                            ss1.analyze_flag, ss1.pass_input,
                            Sha1Hash(ss1.pass_input), answer)

\* lines 115-121: the session state after the widget
WithWidget(ss0, trigger, typed, recreate) ==
    Set(ss0, "pass_input", WidgetValue(ss0, trigger, typed, recreate))

\* one run of the script
Script(trigger, typed, recreate, candidate, answer) ==
    Body(WithDefaults(session_state),
         WithWidget(WithDefaults(session_state), trigger, typed, recreate),
         trigger, candidate, answer)

\* how the range endpoint may answer the lookup of a run: not at all, or
\* with a status and a body that lists the queried password's suffix or not
UiAnswers ==
    {[reachable |-> FALSE, status_code |-> 0, listed |-> FALSE]}
    \cup [reachable : {TRUE}, status_code : StatusCodes, listed : BOOLEAN]

NO_ANSWER == [reachable |-> FALSE, status_code |-> 0, listed |-> FALSE]

\* the first run of the session
Load ==
    /\ run.trigger = "none"
    /\ Script("load", EMPTY, FALSE, EMPTY, NO_ANSWER)

\* the user changes the text of the input
EditInput(typed, answer) ==
    /\ run.trigger # "none"
    /\ ~rerun_pending
    /\ typed # session_state.pass_input
    /\ Script("edit", typed, FALSE, EMPTY, answer)

\* the user presses Generate; the call at line 128 returns candidate
ClickGenerate(candidate) ==
    /\ run.trigger # "none"
    /\ ~rerun_pending
    /\ AllClasses(candidate)
    /\ Script("generate", EMPTY, FALSE, candidate, NO_ANSWER)

\* the user presses Analyze Password
ClickAnalyze(answer) ==
    /\ run.trigger # "none"
    /\ ~rerun_pending
    /\ Script("analyze", EMPTY, FALSE, EMPTY, answer)

\* the run started by st.rerun() (line 130)
Rerun(recreate, answer) ==
    /\ rerun_pending
    /\ Script("rerun", EMPTY, recreate, EMPTY, answer)

UiInit ==
    /\ session_state = <<>>
    /\ rerun_pending = FALSE
    /\ generate_pressed = FALSE
    /\ run = NO_RUN

\* --------------------------------------------------------------------------
\* Specifications
\* --------------------------------------------------------------------------

Init == HibpInit /\ GenInit /\ EntropyInit /\ UiInit

Next ==
    \/ Load /\ UNCHANGED <<hibp_vars, gen_vars, ent_vars>>
    \/ \E typed \in TypedPasswords, answer \in UiAnswers :
          EditInput(typed, answer) /\ UNCHANGED <<hibp_vars, gen_vars, ent_vars>>
    \/ \E candidate \in UiCandidates(DEFAULT_LENGTH) :
          ClickGenerate(candidate) /\ UNCHANGED <<hibp_vars, gen_vars, ent_vars>>
    \/ \E answer \in UiAnswers :
          ClickAnalyze(answer) /\ UNCHANGED <<hibp_vars, gen_vars, ent_vars>>
    \/ \E recreate \in BOOLEAN, answer \in UiAnswers :
          Rerun(recreate, answer) /\ UNCHANGED <<hibp_vars, gen_vars, ent_vars>>

\* the Streamlit session
Spec == Init /\ [][Next]_vars

HibpNext ==
    \/ \E password \in HibpPasswords :
          HibpCall(password) /\ UNCHANGED <<gen_vars, ent_vars, ui_vars>>
    \/ HibpUnreachable /\ UNCHANGED <<gen_vars, ent_vars, ui_vars>>
    \/ /\ hibp_pc = "requested"
       /\ \E status_code \in StatusCodes, newline \in Newlines,
              records \in BodiesFor(hibp_sha1_hash) :
             HibpResponse(status_code, records, newline)
       /\ UNCHANGED <<gen_vars, ent_vars, ui_vars>>
    \/ HibpDone /\ UNCHANGED <<gen_vars, ent_vars, ui_vars>>

\* calls of check_hibp_breach against any server
HibpSpec == Init /\ [][HibpNext]_vars

GenNext ==
    \/ \E length \in Lengths :
          GenCall(length) /\ UNCHANGED <<hibp_vars, ent_vars, ui_vars>>
    \/ \E i \in DrawIndices :
          GenChoice(i) /\ UNCHANGED <<hibp_vars, ent_vars, ui_vars>>
    \/ GenTest /\ UNCHANGED <<hibp_vars, ent_vars, ui_vars>>
    \/ GenDone /\ UNCHANGED <<hibp_vars, ent_vars, ui_vars>>

\* calls of generate_strong_password with any length
GenSpec == Init /\ [][GenNext]_vars

\* the same, with a thread that keeps running the loop of lines 42-48
GenFairSpec ==
    /\ GenSpec
    /\ WF_vars((\E i \in DrawIndices : GenChoice(i)) /\ UNCHANGED <<hibp_vars, ent_vars, ui_vars>>)
    /\ WF_vars(GenTest /\ UNCHANGED <<hibp_vars, ent_vars, ui_vars>>)

EntropyNext == EntropyCall /\ UNCHANGED <<hibp_vars, gen_vars, ui_vars>>

\* a call of calculate_entropy with any password has just been made
EntropySpecInit == HibpInit /\ GenInit /\ EntropyInitCall /\ UiInit

\* calls of calculate_entropy with any password
EntropySpec == EntropySpecInit /\ [][EntropyNext]_vars

\* --------------------------------------------------------------------------
\* Properties
\* --------------------------------------------------------------------------

HasCharOf(password, alphabet) == Range(password) \cap Range(alphabet) # {}

\* C1: a password returned by generate_strong_password(length) has exactly
\* length characters and holds a lowercase letter, an uppercase letter, a
\* digit and one of !@#$%^&*.
C1_ReturnedCoversClasses ==
    gen_pc = "returned" =>
        /\ Len(gen_result) = gen_length
        /\ HasCharOf(gen_result, ascii_lowercase)
        /\ HasCharOf(gen_result, ascii_uppercase)
        /\ HasCharOf(gen_result, digits)
        /\ HasCharOf(gen_result, SYMBOLS)

C1_Witness == gen_pc = "returned" /\ gen_length = 5 /\ Len(gen_result) = 5

\* C2: a call with a length below 4 ends in InvalidLengthError: it never
\* samples and never returns.
C2_ShortLengthIsRejected ==
    (gen_pc # "idle" /\ gen_length < 4) => gen_pc = "InvalidLengthError"

\* C8: every call of generate_strong_password ends: it returns a password or
\* fails with GenerationExhaustedError.
C8_GenerateTerminates ==
    (gen_pc = "loop") ~> (gen_pc \in {"returned", "GenerationExhaustedError"})

\* C9: every character drawn comes from an alphabet of 72 distinct values, 52
\* letters, 10 digits and 10 symbols, and the symbols the generator draws are
\* those the estimator recognises, 10 in number as the estimator counts them.
C9_AlphabetOfSeventyTwo ==
    gen_pc = "loop" =>
        /\ Range(gen_password) \subseteq Range(chars)
        /\ Cardinality(Range(chars)) = 72
        /\ Cardinality(Range(ascii_letters)) = 52
        /\ Cardinality(Range(digits)) = 10
        /\ Range(chars) \ (Range(ascii_letters) \cup Range(digits))
               = {c \in Range(chars) : Matches("[!@#$%^&*]", c)}
        /\ Cardinality({c \in Range(chars) : Matches("[!@#$%^&*]", c)}) = 10

\* the response is one the lookup cannot trust: not a 2xx status, or a line
\* without a colon, or a SUFFIX that is not hexadecimal
IsHex(f) == \A i \in 1..Len(f) : f[i] \in (48..57) \cup (65..70) \cup (97..102)

Untrusted(response, records) ==
    \/ response.status_code < 200
    \/ response.status_code > 299
    \/ \E i \in 1..Len(records) : Len(records[i]) = 1 \/ ~IsHex(records[i][1])

\* C3: check_hibp_breach never returns "not breached" for a response with a
\* non-2xx status or a malformed line.
C3_NoCleanVerdictOnFailure ==
    ~(/\ hibp_pc = "returned"
      /\ Untrusted(hibp_response, hibp_records)
      /\ hibp_result = FALSE)

\* "5BAA6", the first five characters of the digest of "password"
PASSWORD_PREFIX == <<53, 66, 65, 65, 54>>

\* C4: a call of check_hibp_breach sends exactly one request, and what that
\* request carries of the password is the first 5 characters of its
\* uppercase SHA-1 digest and nothing else.
C4_OnlyThePrefixLeaves ==
    hibp_pc # "idle" =>
        /\ Len(hibp_outbound) = 1
        /\ hibp_outbound[1] =
             [method |-> "GET",
              url |-> RANGE_URL \o SubSeq(DIGESTS[hibp_password], 1, 5),
              headers |-> [UserAgent |-> "EnterpriseScanner"]]
        /\ Len(hibp_outbound[1].url) = Len(RANGE_URL) + 5
        /\ \A q \in HibpPasswords :
             SubSeq(DIGESTS[q], 1, 5) = SubSeq(DIGESTS[hibp_password], 1, 5)
                 => hibp_outbound[1] = RangeRequest(SubSeq(DIGESTS[q], 1, 5))

C4_Witness ==
    /\ hibp_pc = "returned"
    /\ hibp_password = <<112, 97, 115, 115, 119, 111, 114, 100>>
    /\ hibp_outbound = <<RangeRequest(PASSWORD_PREFIX)>>

\* C5: check_hibp_breach returns True exactly when the first ':'-separated
\* field of some line of the body equals the 35 characters that follow the
\* prefix in the digest.
C5_ExactSuffixMatch ==
    hibp_pc = "returned" =>
        (hibp_result <=>
            \E i \in 1..Len(hibp_records) :
                hibp_records[i][1] = SubSeq(DIGESTS[hibp_password], 6, 40))

C5_Witness ==
    /\ hibp_pc = "returned"
    /\ hibp_result = TRUE
    /\ Len(hibp_records) = 2
    /\ hibp_records[1][1] = SubSeq(DIGESTS[hibp_password], 6, 39)
    /\ hibp_records[2] = <<SubSeq(DIGESTS[hibp_password], 6, 40), <<51>>>>

\* the nominal sizes of the classes that have a character in password
NominalSize(password) ==
    (IF \E c \in Range(password) : c \in Range(ascii_lowercase) THEN 26 ELSE 0)
    + (IF \E c \in Range(password) : c \in Range(ascii_uppercase) THEN 26 ELSE 0)
    + (IF \E c \in Range(password) : MatchesDigit(c) THEN 10 ELSE 0)
    + (IF \E c \in Range(password) : c \in Range(SYMBOLS) THEN 10 ELSE 0)


\* the three tiers of the claim
Tier(entropy) ==
    IF entropy < 30 * MICRO THEN "Weak"
    ELSE IF entropy < 60 * MICRO THEN "Moderate"
    ELSE "Strong"

\* 29.9, 30.0, 59.9 and 60.0 bits
TierExamples == {29900000, 30000000, 59900000, 60000000}

\* C7 as claimed: scores of different tiers (below 30, 30 to 60, 60 and more)
\* are reported with different levels, and the breach status follows the
\* verdict alone.
C7_ThreeTiers ==
    \A i \in 1..Len(run.reports) :
        LET r == run.reports[i]
        IN  /\ \A e \in TierExamples :
                 Tier(e) # Tier(r.entropy) => RiskLevel(e) # r.risk_level
            /\ r.breach_status = "Compromised" <=> r.is_breached

\* C7 as amended: the report has two levels, High Risk below 60 bits and Low
\* Risk from 60 bits, and the breach status follows the verdict alone.
C7_TwoLevels ==
    \A i \in 1..Len(run.reports) :
        LET r == run.reports[i]
        IN  /\ r.risk_level \in {"High Risk", "Low Risk"}
            /\ r.risk_level = "High Risk" <=> r.entropy < 60 * MICRO
            /\ r.breach_status \in {"Compromised", "Secure"}
            /\ r.breach_status = "Compromised" <=> r.is_breached

C7_Witness ==
    /\ Len(run.reports) = 1
    /\ run.reports[1].entropy >= 60 * MICRO
    /\ run.reports[1].entropy < 80 * MICRO
    /\ run.reports[1].risk_level = "Low Risk"
    /\ run.reports[1].is_breached

\* the flag is set exactly once Generate has been pressed
FlagFollowsGenerate ==
    /\ Has(session_state, "analyze_flag") =>
           (session_state.analyze_flag <=> generate_pressed)
    /\ ~Has(session_state, "analyze_flag") => ~generate_pressed

\* C10 as claimed: a run makes one lookup and one entropy computation exactly
\* when the input is not empty and Analyze was clicked in it or Generate was
\* pressed before it.
C10_AnalysisInEveryFlaggedRun ==
    /\ FlagFollowsGenerate
    /\ run.trigger # "none" =>
        LET due == /\ run.pass_input # EMPTY
                   /\ (run.trigger = "analyze" \/ run.generate_before)
        IN  /\ Len(run.lookups) = (IF due THEN 1 ELSE 0)
            /\ run.entropy_calls = (IF due THEN 1 ELSE 0)

\* C10 as amended: the run in which Generate is pressed ends at st.rerun()
\* and analyses nothing, and the entropy is computed only when the lookup
\* did not raise.
C10_AnalysisUnlessCutShort ==
    /\ FlagFollowsGenerate
    /\ run.trigger # "none" =>
        LET due == /\ run.trigger # "generate"
                   /\ run.pass_input # EMPTY
                   /\ (run.trigger = "analyze" \/ run.generate_before)
        IN  /\ Len(run.lookups) = (IF due THEN 1 ELSE 0)
            /\ run.entropy_calls = (IF due /\ run.exception = None THEN 1 ELSE 0)
            /\ run.pass_input = EMPTY => run.lookups = <<>>

C10_Witness ==
    /\ run.trigger = "rerun"
    /\ run.generate_before
    /\ ~run.analyze_clicked
    /\ Len(run.lookups) = 1
    /\ run.entropy_calls = 1

====
